---- MODULE Spec2Model ----
(***************************************************************************)
(* Model of Auto-Adobe_RS (src/src/main.rs): the date rule                 *)
(* make_date_expire and the two-request run of main.                       *)
(*                                                                         *)
(* Strings are sequences of one-character strings, so that formatting is   *)
(* computed digit by digit as format! does.                                *)
(*                                                                         *)
(* Three specifications:                                                   *)
(*   DateSpec  calls make_date_expire on inputs drawn from Years x Months  *)
(*   Spec      one run of main against an arbitrary environment and server *)
(*   FairSpec  Spec plus progress of the (single, blocking) program thread *)
(***************************************************************************)
EXTENDS Integers, Sequences, FiniteSets, TLC

VARIABLES
    overflow_checks, \* build profile: TRUE = debug (overflow panics), FALSE = release (wraps)
    \* ---- one call of make_date_expire (DateSpec)
    fpc,             \* "off" | "call" | "ret"
    fyear, fmonth,   \* the arguments
    fres,            \* the outcome of the call
    \* ---- one run of main (Spec)
    pc,              \* position in main
    env,             \* what env::var gives for each credential variable:
                     \* "Ok", "NotPresent" or "NotUnicode"
    dotenv_file,     \* which credential variables a .env file provides
    clock,           \* the system's local date (year, month)
    ticks,           \* how many months the clock has advanced during the run
    today,           \* the date read at line 78
    date_expire,     \* the value computed at line 79
    clients,         \* number of HTTP clients built
    jar,             \* the client's cookie store: enabled or not, and its content
    login_sent,      \* number of login POSTs issued
    login_req,       \* the login request as sent
    login_resp,      \* the login response
    adobe_sent,      \* number of reservation POSTs issued
    adobe_req,       \* the reservation request as sent
    adobe_resp,      \* the reservation response
    stdout,          \* what has been written to stdout: "none", "part" (some of the
                     \* body), "body" (the whole body), "line" (body and newline)
    exit_code,       \* -1 while running, then the process exit status
    err              \* the error main ended with, and the exit status it leads to

fvars == <<fpc, fyear, fmonth, fres>>
mvars == <<pc, env, dotenv_file, clock, ticks, today, date_expire, clients, jar,
           login_sent, login_req, login_resp, adobe_sent, adobe_req, adobe_resp,
           stdout, exit_code, err>>
vars == <<overflow_checks, fvars, mvars>>

----------------------------------------------------------------------------
(* Bounds *)

MaxMonth == 14
MaxTicks == 1
MaxCookies == 1

MaxI32 == 2147483647
MinI32 == -MaxI32 - 1

\* A u32 is held as its 32-bit pattern read as a signed integer (the model
\* checker's integers are 32 bits wide): 0..2147483647 stand for themselves,
\* 2147483648..4294967295 are held as value - 2^32, so u32::MAX is -1.
U32Max == MinI32 + MaxI32
U32HighBit == MinI32

Years == {MinI32, -1000, -999, -1, 0, 1, 999, 1000, 2023, 2024, 9999, 10000, MaxI32}
Months == (0..MaxMonth) \cup {99, 100, MaxI32, U32HighBit, U32Max}
StartMonths == {1, 12}
StartYears == {2024}
Cookies == 1..MaxCookies
Statuses == {200, 204, 302, 403}

----------------------------------------------------------------------------
(* format!("{:04}-{:02}-01", new_year, new_month) *)

DigitChars == <<"0", "1", "2", "3", "4", "5", "6", "7", "8", "9">>

Digit(d) == DigitChars[d + 1]

RECURSIVE Digits(_)
Digits(n) == IF n < 10 THEN <<Digit(n)>> ELSE Digits(n \div 10) \o <<Digit(n % 10)>>

\* decimal digits of |n| for n < 0, without negating n (|MinI32| is not an i32)
AbsDigits(n) ==
    LET m == -(n + 1)
        q == m \div 10
        r == m % 10
    IN  IF r = 9 THEN Digits(q + 1) \o <<"0">>
        ELSE (IF q = 0 THEN <<>> ELSE Digits(q)) \o <<Digit(r + 1)>>

RECURSIVE PadLeft(_, _)
PadLeft(s, w) == IF Len(s) >= w THEN s ELSE PadLeft(<<"0">> \o s, w)

\* {:0w} on an i32: sign-aware zero padding, the sign counts toward the width
FmtI32(n, w) ==
    IF n >= 0 THEN PadLeft(Digits(n), w)
    ELSE <<"-">> \o PadLeft(AbsDigits(n), w - 1)

\* decimal digits of a u32: a pattern n < 0 stands for n + 2^32 = 429496729 * 10 + 6 + n
U32Digits(n) ==
    IF n >= 0 THEN Digits(n)
    ELSE Digits(429496729 + ((6 + n) \div 10)) \o <<Digit((6 + n) % 10)>>

\* {:0w} on a u32
FmtU32(n, w) == PadLeft(U32Digits(n), w)

\* n + 1 on a u32, wrapping
WrappingAdd1(n) == IF n = MaxI32 THEN U32HighBit ELSE n + 1

Format(new_year, new_month) ==
    FmtI32(new_year, 4) \o <<"-">> \o FmtU32(new_month, 2) \o <<"-", "0", "1">>

Returned(s) == [kind |-> "ok", str |-> s, msg |-> ""]
Panicked(msg) == [kind |-> "panic", str |-> <<>>, msg |-> msg]
NoResult == [kind |-> "none", str |-> <<>>, msg |-> ""]

----------------------------------------------------------------------------
(* fn make_date_expire(year: i32, month: u32) -> String *)

\* BUG VARIANT (a month outside 1..12 is rejected before the rule is applied)
make_date_expire_Validating(year, month) ==
    IF month \notin 1..12
    THEN Panicked("month out of range")
    ELSE IF month = 1
         THEN IF year = MinI32
              THEN IF overflow_checks
                   THEN Panicked("attempt to subtract with overflow")
                   ELSE Returned(Format(MaxI32, 12))
              ELSE Returned(Format(year - 1, 12))
         ELSE Returned(Format(year, WrappingAdd1(month)))

\* year - 1 overflows at i32::MIN and month + 1 at u32::MAX: a panic with
\* overflow checks, a wrap without
make_date_expire(year, month) ==
    IF month = 1
    THEN IF year = MinI32
         THEN IF overflow_checks
              THEN Panicked("attempt to subtract with overflow")
              ELSE Returned(Format(MaxI32, 12))
         ELSE Returned(Format(year - 1, 12))
    ELSE IF month = U32Max /\ overflow_checks
         THEN Panicked("attempt to add with overflow")
         ELSE Returned(Format(year, WrappingAdd1(month)))

----------------------------------------------------------------------------
(* DateSpec: one call of make_date_expire *)

MainIdle ==
    /\ pc = "off"
    /\ env = [user |-> "NotPresent", pass |-> "NotPresent"]
    /\ dotenv_file = [user |-> FALSE, pass |-> FALSE]
    /\ clock = [year |-> 0, month |-> 0]
    /\ ticks = 0
    /\ today = [year |-> 0, month |-> 0]
    /\ date_expire = NoResult
    /\ clients = 0
    /\ jar = [enabled |-> FALSE, cookies |-> {}]
    /\ login_sent = 0
    /\ login_req = [client |-> 0, cookies |-> {}]
    /\ login_resp = [status |-> 0, cookies |-> {}]
    /\ adobe_sent = 0
    /\ adobe_req = [client |-> 0, jar |-> {}, cookies |-> {}, date_expire |-> <<>>]
    /\ adobe_resp = [status |-> 0]
    /\ stdout = "none"
    /\ exit_code = -1
    /\ err = [kind |-> "none", status |-> 0, code |-> 0]

DateInit ==
    /\ overflow_checks \in BOOLEAN
    /\ fpc = "call"
    /\ fyear \in Years
    /\ fmonth \in Months
    /\ fres = NoResult
    /\ MainIdle

Call ==
    /\ fpc = "call"
    /\ fres' = make_date_expire(fyear, fmonth)
    /\ fpc' = "ret"
    /\ UNCHANGED <<overflow_checks, fyear, fmonth, mvars>>

DateNext == Call

DateSpec == DateInit /\ [][DateNext]_vars

----------------------------------------------------------------------------
(* fn main() -> Result<(), Box<dyn std::error::Error>> *)

NoError == [kind |-> "none", status |-> 0, code |-> 0]

\* env::var: Ok, Err(NotPresent) or Err(NotUnicode)
VarResults == {"Ok", "NotPresent", "NotUnicode"}

\* main is left by a panic (exit status 101) or by returning Err (exit status 1);
\* the runtime has still to report it on stderr
Abort(code, e) ==
    /\ pc' = "fail"
    /\ exit_code' = exit_code
    /\ err' = [kind |-> e.kind, status |-> e.status, code |-> code]

\* StatusCode::is_success
is_success_Lenient(status) == status >= 200 /\ status < 400

is_success(status) == status >= 200 /\ status < 300

Init ==
    /\ overflow_checks \in BOOLEAN
    /\ fpc = "off"
    /\ fyear = 0
    /\ fmonth = 0
    /\ fres = NoResult
    /\ pc = "dotenv"
    /\ env \in [user : VarResults, pass : VarResults]
    /\ dotenv_file \in [user : BOOLEAN, pass : BOOLEAN]
    /\ clock \in [year : StartYears, month : StartMonths]
    /\ ticks = 0
    /\ today = [year |-> 0, month |-> 0]
    /\ date_expire = NoResult
    /\ clients = 0
    /\ jar = [enabled |-> FALSE, cookies |-> {}]
    /\ login_sent = 0
    /\ login_req = [client |-> 0, cookies |-> {}]
    /\ login_resp = [status |-> 0, cookies |-> {}]
    /\ adobe_sent = 0
    /\ adobe_req = [client |-> 0, jar |-> {}, cookies |-> {}, date_expire |-> <<>>]
    /\ adobe_resp = [status |-> 0]
    /\ stdout = "none"
    /\ exit_code = -1
    /\ err = NoError

\* the system clock moves to the next month while the process runs
Tick ==
    /\ pc # "exit"
    /\ ticks < MaxTicks
    /\ ticks' = ticks + 1
    /\ clock' = IF clock.month = 12
                THEN [year |-> clock.year + 1, month |-> 1]
                ELSE [year |-> clock.year, month |-> clock.month + 1]
    /\ UNCHANGED <<overflow_checks, fvars, pc, env, dotenv_file, today, date_expire,
                   clients, jar, login_sent, login_req, login_resp, adobe_sent,
                   adobe_req, adobe_resp, stdout, exit_code, err>>

\* dotenv().ok(): a variable of the .env file is set unless env::var already
\* gives Ok for it
LoadDotenv ==
    /\ pc = "dotenv"
    /\ env' = [user |-> IF dotenv_file.user THEN "Ok" ELSE env.user,
               pass |-> IF dotenv_file.pass THEN "Ok" ELSE env.pass]
    /\ pc' = "username"
    /\ UNCHANGED <<overflow_checks, fvars, dotenv_file, clock, ticks, today, date_expire,
                   clients, jar, login_sent, login_req, login_resp, adobe_sent,
                   adobe_req, adobe_resp, stdout, exit_code, err>>

\* env::var("KMUTNB_USERNAME").expect(..)
ReadUsername ==
    /\ pc = "username"
    /\ IF env.user = "Ok"
       THEN pc' = "password" /\ UNCHANGED <<exit_code, err>>
       ELSE Abort(101, [kind |-> "KMUTNB_USERNAME must be set", status |-> 0])
    /\ UNCHANGED <<overflow_checks, fvars, env, dotenv_file, clock, ticks, today,
                   date_expire, clients, jar, login_sent, login_req, login_resp,
                   adobe_sent, adobe_req, adobe_resp, stdout>>

\* BUG VARIANT (a missing password falls back to a default)
ReadPassword_Default ==
    /\ pc = "password"
    /\ pc' = "date"
    /\ UNCHANGED <<overflow_checks, fvars, env, dotenv_file, clock, ticks, today,
                   date_expire, clients, jar, login_sent, login_req, login_resp,
                   adobe_sent, adobe_req, adobe_resp, stdout, exit_code, err>>

\* env::var("KMUTNB_PASSWORD").expect(..)
ReadPassword ==
    /\ pc = "password"
    /\ IF env.pass = "Ok"
       THEN pc' = "date" /\ UNCHANGED <<exit_code, err>>
       ELSE Abort(101, [kind |-> "KMUTNB_PASSWORD must be set", status |-> 0])
    /\ UNCHANGED <<overflow_checks, fvars, env, dotenv_file, clock, ticks, today,
                   date_expire, clients, jar, login_sent, login_req, login_resp,
                   adobe_sent, adobe_req, adobe_resp, stdout>>

\* let today = Local::now().date_naive(); let date_expire = make_date_expire(..)
ComputeDate ==
    /\ pc = "date"
    /\ today' = clock
    /\ LET r == make_date_expire(clock.year, clock.month)
       IN  /\ date_expire' = r
           /\ IF r.kind = "ok"
              THEN pc' = "client" /\ UNCHANGED <<exit_code, err>>
              ELSE Abort(101, [kind |-> r.msg, status |-> 0])
    /\ UNCHANGED <<overflow_checks, fvars, env, dotenv_file, clock, ticks,
                   clients, jar, login_sent, login_req, login_resp,
                   adobe_sent, adobe_req, adobe_resp, stdout>>

\* Client::builder().cookie_store(true)...build()?
\* the client is built with its cookie store enabled, and empty
BuildClient ==
    /\ pc = "client"
    /\ \E built \in BOOLEAN :
         IF built
         THEN /\ clients' = clients + 1
              /\ jar' = [enabled |-> TRUE, cookies |-> {}]
              /\ pc' = "login"
              /\ UNCHANGED <<exit_code, err>>
         ELSE Abort(1, [kind |-> "client", status |-> 0]) /\ UNCHANGED <<clients, jar>>
    /\ UNCHANGED <<overflow_checks, fvars, env, dotenv_file, clock, ticks, today,
                   date_expire, login_sent, login_req, login_resp,
                   adobe_sent, adobe_req, adobe_resp, stdout>>

\* what an enabled cookie store may hold after an exchange.  The source only
\* enables the store (line 85); what it keeps is decided inside reqwest: the
\* cookies of every response of a redirect chain, less those it refuses.  Any
\* set of cookies is possible.
Stored == IF jar.enabled THEN SUBSET Cookies ELSE {{}}

\* the cookies of the store that go with a request: those whose domain and
\* path match the request's URL, some subset of the store
Attached == SUBSET jar.cookies

\* BUG VARIANT (a transport failure of the login leads to another attempt)
Login_Retry ==
    /\ pc = "login"
    /\ login_sent' = login_sent + 1
    /\ \E attached \in Attached : login_req' = [client |-> clients, cookies |-> attached]
    /\ \E stored \in Stored : jar' = [jar EXCEPT !.cookies = stored]
    /\ \/ /\ login_sent < 1
          /\ UNCHANGED <<pc, exit_code, err, login_resp>>
       \/ \E status \in Statuses, set_cookie \in SUBSET Cookies :
            /\ login_resp' = [status |-> status, cookies |-> set_cookie]
            /\ pc' = "check"
            /\ UNCHANGED <<exit_code, err>>
    /\ UNCHANGED <<overflow_checks, fvars, env, dotenv_file, clock, ticks, today,
                   date_expire, clients, adobe_sent, adobe_req, adobe_resp, stdout>>

\* client.post(LOGIN_URL).headers(..).form(&login_data).send()?
\* login_resp is the response send() returns, the last of the exchange, with
\* the cookies it sets; what the store holds afterwards is reqwest's choice
Login ==
    /\ pc = "login"
    /\ login_sent' = login_sent + 1
    /\ \E attached \in Attached : login_req' = [client |-> clients, cookies |-> attached]
    /\ \E stored \in Stored : jar' = [jar EXCEPT !.cookies = stored]
    /\ \/ /\ Abort(1, [kind |-> "network", status |-> 0])
          /\ UNCHANGED login_resp
       \/ \E status \in Statuses, set_cookie \in SUBSET Cookies :
            /\ login_resp' = [status |-> status, cookies |-> set_cookie]
            /\ pc' = "check"
            /\ UNCHANGED <<exit_code, err>>
    /\ UNCHANGED <<overflow_checks, fvars, env, dotenv_file, clock, ticks, today,
                   date_expire, clients, adobe_sent, adobe_req, adobe_resp, stdout>>

\* BUG VARIANT (the login status is not looked at)
CheckLogin_IgnoreStatus ==
    /\ pc = "check"
    /\ pc' = "adobe"
    /\ UNCHANGED <<overflow_checks, fvars, env, dotenv_file, clock, ticks, today,
                   date_expire, clients, jar, login_sent, login_req, login_resp,
                   adobe_sent, adobe_req, adobe_resp, stdout, exit_code, err>>

\* if !login_resp.status().is_success() { .. }
CheckLogin ==
    /\ pc = "check"
    /\ pc' = IF is_success(login_resp.status) THEN "adobe" ELSE "report"
    /\ UNCHANGED <<overflow_checks, fvars, env, dotenv_file, clock, ticks, today,
                   date_expire, clients, jar, login_sent, login_req, login_resp,
                   adobe_sent, adobe_req, adobe_resp, stdout, exit_code, err>>

\* eprintln!("Login request failed with status: {}", ..); return Err(..)
\* eprintln! panics when the write to stderr fails; the write has no time limit
ReportLoginFailure ==
    /\ pc = "report"
    /\ \E written \in BOOLEAN :
         IF written
         THEN Abort(1, [kind |-> "Login failed with status", status |-> login_resp.status])
         ELSE Abort(101, [kind |-> "failed printing to stderr", status |-> 0])
    /\ UNCHANGED <<overflow_checks, fvars, env, dotenv_file, clock, ticks, today,
                   date_expire, clients, jar, login_sent, login_req, login_resp,
                   adobe_sent, adobe_req, adobe_resp, stdout>>

\* BUG VARIANT (the expiry date is computed again when the form is built)
AdobeData_Recomputed == make_date_expire(clock.year, clock.month).str

\* the date_expire field of adobe_data
AdobeData == date_expire.str

\* client.post(ADOBE_URL).headers(..).form(&adobe_data).send()?
\* the request goes through the same client: adobe_req records the store's
\* content when the request is sent and the cookies that go with it
Reserve ==
    /\ pc = "adobe"
    /\ adobe_sent' = adobe_sent + 1
    /\ \E attached \in Attached :
         adobe_req' = [client |-> clients, jar |-> jar.cookies, cookies |-> attached,
                       date_expire |-> AdobeData]
    /\ \E stored \in Stored : jar' = [jar EXCEPT !.cookies = stored]
    /\ \/ /\ Abort(1, [kind |-> "network", status |-> 0])
          /\ UNCHANGED adobe_resp
       \/ \E status \in Statuses :
            /\ adobe_resp' = [status |-> status]
            /\ pc' = "print"
            /\ UNCHANGED <<exit_code, err>>
    /\ UNCHANGED <<overflow_checks, fvars, env, dotenv_file, clock, ticks, today,
                   date_expire, clients, login_sent, login_req, login_resp, stdout>>

\* BUG VARIANT (a body that cannot be read is skipped)
ReadBody_IgnoreError ==
    /\ pc = "print"
    /\ \E read \in BOOLEAN : pc' = IF read THEN "write" ELSE "return"
    /\ UNCHANGED <<overflow_checks, fvars, env, dotenv_file, clock, ticks, today,
                   date_expire, clients, jar, login_sent, login_req, login_resp,
                   adobe_sent, adobe_req, adobe_resp, stdout, exit_code, err>>

\* adobe_resp.text()?  (the argument of println!, evaluated first)
ReadBody ==
    /\ pc = "print"
    /\ \E read \in BOOLEAN :
         IF read
         THEN pc' = "write" /\ UNCHANGED <<exit_code, err>>
         ELSE Abort(1, [kind |-> "network", status |-> 0])
    /\ UNCHANGED <<overflow_checks, fvars, env, dotenv_file, clock, ticks, today,
                   date_expire, clients, jar, login_sent, login_req, login_resp,
                   adobe_sent, adobe_req, adobe_resp, stdout>>

\* println!("{}", ..): the body and then the newline are written to stdout;
\* the macro panics as soon as a write fails, so what is on stdout by then is
\* nothing, part of the body, or the whole body without its newline (the rest
\* stays in stdout's buffer).  No write has a time limit (a full pipe blocks
\* it).
PrintBody ==
    /\ pc = "write"
    /\ \E out \in {"none", "part", "body", "line"} :
         /\ stdout' = out
         /\ IF out = "line"
            THEN pc' = "return" /\ UNCHANGED <<exit_code, err>>
            ELSE Abort(101, [kind |-> "failed printing to stdout", status |-> 0])
    /\ UNCHANGED <<overflow_checks, fvars, env, dotenv_file, clock, ticks, today,
                   date_expire, clients, jar, login_sent, login_req, login_resp,
                   adobe_sent, adobe_req, adobe_resp>>

\* Ok(()): the process ends with status 0
ReturnOk ==
    /\ pc = "return"
    /\ pc' = "exit"
    /\ exit_code' = 0
    /\ err' = NoError
    /\ UNCHANGED <<overflow_checks, fvars, env, dotenv_file, clock, ticks, today,
                   date_expire, clients, jar, login_sent, login_req, login_resp,
                   adobe_sent, adobe_req, adobe_resp, stdout>>

\* what is on stdout once the runtime has flushed stdout's buffer at exit:
\* println! that failed leaves the unwritten rest of the line in the buffer,
\* and the flush writes none, some or all of it
Flushed(out) ==
    CASE out = "none" -> {"none", "part", "body", "line"}
      [] out = "part" -> {"part", "body", "line"}
      [] out = "body" -> {"body", "line"}
      [] out = "line" -> {"line"}

\* after a panic or an Err from main the runtime writes the panic message or
\* `Error: ..` to stderr (a write without time limit, its failure ignored),
\* flushes stdout's buffer, and the process ends with status 101 or 1
ReportAndExit ==
    /\ pc = "fail"
    /\ pc' = "exit"
    /\ exit_code' = err.code
    /\ stdout' \in IF err.kind = "failed printing to stdout"
                   THEN Flushed(stdout)
                   ELSE {stdout}
    /\ UNCHANGED <<overflow_checks, fvars, env, dotenv_file, clock, ticks, today,
                   date_expire, clients, jar, login_sent, login_req, login_resp,
                   adobe_sent, adobe_req, adobe_resp, err>>

\* the steps whose duration is bounded: local computation, and network waits
\* under the 10 s timeout of the client
Bounded ==
    \/ LoadDotenv
    \/ ReadUsername
    \/ ReadPassword
    \/ ComputeDate
    \/ BuildClient
    \/ Login
    \/ CheckLogin
    \/ Reserve
    \/ ReadBody
    \/ ReturnOk

\* the writes to stderr and stdout, which may block for ever
Writes == ReportLoginFailure \/ PrintBody \/ ReportAndExit

\* the steps of the program's single thread
Step == Bounded \/ Writes

Next == Step \/ Tick

Spec == Init /\ [][Next]_vars

\* the single thread runs on; only a write to stdout or stderr may never return
FairSpec == Spec /\ WF_vars(Bounded)

----------------------------------------------------------------------------
(* Properties of make_date_expire (DateSpec) *)

IsDigit(c) == \E d \in 1..10 : DigitChars[d] = c

\* the value of a two-character decimal field
FieldValue(s, i) ==
    LET v(c) == CHOOSE d \in 0..9 : DigitChars[d + 1] = c
    IN  10 * v(s[i]) + v(s[i + 1])

\* the first day of the calendar month after (year, month), for year < MaxI32
CalendarNext(year, month) ==
    IF month = 12 THEN Format(year + 1, 1) ELSE Format(year, month + 1)

\* the rule of spec section 4.1
DocumentedRule(year, month) ==
    IF month = 1 THEN Format(year - 1, 12) ELSE Format(year, month + 1)

\* "-2147483649-12-01": the rule's result for (i32::MIN, 1), a year no i32 holds
BelowMinI32December ==
    <<"-", "2", "1", "4", "7", "4", "8", "3", "6", "4", "9", "-", "1", "2", "-", "0", "1">>

\* C1: for every calendar year (here the years 1..9999, which YYYY renders) and
\* every month in 1..12 the call returns the first day of the following
\* calendar month: (year, month+1, 1) for months 1..11 and (year+1, 1, 1) for
\* month 12.
C1_NextMonthFirstDay ==
    (fpc = "ret" /\ fyear \in 1..9999 /\ fmonth \in 1..12) =>
        fres = Returned(CalendarNext(fyear, fmonth))

\* C2: for every year and every month in 1..12 the call returns the
\* string of the documented piecewise rule, (year-1, 12, 01) for January and
\* (year, month+1, 01) otherwise.
C2_DocumentedRuleEveryYear ==
    (fpc = "ret" /\ fmonth \in 1..12) =>
        fres = Returned(IF fyear = MinI32 /\ fmonth = 1
                        THEN BelowMinI32December
                        ELSE DocumentedRule(fyear, fmonth))

\* C3: for every i32 year and every month in 1..12 the returned string is four
\* digits, '-', two digits, '-01', and the two digits are a month in 01..12.
C3_FixedPattern ==
    (fpc = "ret" /\ fmonth \in 1..12) =>
        /\ fres.kind = "ok"
        /\ Len(fres.str) = 10
        /\ \A i \in {1, 2, 3, 4, 6, 7} : IsDigit(fres.str[i])
        /\ fres.str[5] = "-"
        /\ SubSeq(fres.str, 8, 10) = <<"-", "0", "1">>
        /\ FieldValue(fres.str, 6) \in 1..12

\* C4 as stated: for every month outside 1..12 the call yields an error
\* outcome, not a date string.
C4_RejectsOutOfRangeMonth ==
    (fpc = "ret" /\ fmonth \notin 1..12) => fres.kind # "ok"

\* the month field {:02} of month + 1, written out for the months above i32::MAX
NextMonthField(month) ==
    IF month = U32Max THEN <<"0", "0">>
    ELSE IF month = U32HighBit
         THEN <<"2", "1", "4", "7", "4", "8", "3", "6", "4", "9">>
    ELSE IF month = MaxI32
         THEN <<"2", "1", "4", "7", "4", "8", "3", "6", "4", "8">>
    ELSE PadLeft(Digits(month + 1), 2)

\* C4 amended: the call validates nothing and has no error outcome of its own:
\* for every month outside 1..12 it returns the string for (year, month+1, 01),
\* e.g. "2024-01-01" for month 0 and "2024-14-01" for month 13; only at
\* month = u32::MAX does month + 1 overflow, a panic with overflow checks and
\* the month field "00" without.
C4_NoMonthValidation ==
    /\ (fpc = "ret" /\ fmonth \notin 1..12) =>
           IF fmonth = U32Max /\ overflow_checks
           THEN fres = Panicked("attempt to add with overflow")
           ELSE fres = Returned(FmtI32(fyear, 4) \o <<"-">> \o NextMonthField(fmonth)
                                \o <<"-", "0", "1">>)
    /\ (fpc = "ret" /\ fyear = 2024 /\ fmonth = 0) =>
           fres.str = <<"2", "0", "2", "4", "-", "0", "1", "-", "0", "1">>
    /\ (fpc = "ret" /\ fyear = 2024 /\ fmonth = 100) =>
           fres.str = <<"2", "0", "2", "4", "-", "1", "0", "1", "-", "0", "1">>

C4_Witness ==
    /\ fpc = "ret"
    /\ fyear = 2024
    /\ fmonth = 13
    /\ fres = Returned(<<"2", "0", "2", "4", "-", "1", "4", "-", "0", "1">>)

----------------------------------------------------------------------------
(* Properties of a run of main (Spec, FairSpec) *)

Success2xx == 200..299

\* no response was received for a request that was sent
LoginTransportFailed == login_sent > 0 /\ login_resp.status = 0
AdobeTransportFailed == adobe_sent > 0 /\ adobe_resp.status = 0

\* C5 as stated: once the login response has a status outside 2xx, no
\* reservation POST is issued in that state or any later one, and the run,
\* when it has ended, has failed with an error that carries the login status
\* code.
C5_LoginFailureIdentified ==
    (login_resp.status # 0 /\ login_resp.status \notin Success2xx) =>
        /\ adobe_sent = 0
        /\ pc \in {"check", "report", "fail", "exit"}
        /\ pc = "exit" =>
             /\ exit_code # 0
             /\ err.kind = "Login failed with status"
             /\ err.status = login_resp.status

\* C5 amended: once the login response has a status outside 2xx, no
\* reservation POST is issued in that state or any later one, and the run,
\* when it has ended, has failed: with the error that carries the login status
\* code (exit 1), or, when the status message could not be written to stderr,
\* with the panic of eprintln! (exit 101).
C5_LoginFailureAborts ==
    (login_resp.status # 0 /\ login_resp.status \notin Success2xx) =>
        /\ adobe_sent = 0
        /\ pc \in {"check", "report", "fail", "exit"}
        /\ pc = "exit" =>
             \/ /\ exit_code = 1
                /\ err.kind = "Login failed with status"
                /\ err.status = login_resp.status
             \/ /\ exit_code = 101
                /\ err.kind = "failed printing to stderr"

C5_Witness ==
    /\ pc = "exit"
    /\ login_resp.status = 403
    /\ adobe_sent = 0
    /\ exit_code = 1
    /\ err.status = 403

\* the reservation response body is on stdout, whole
BodyPrinted == stdout \in {"body", "line"}

\* the failure causes of C6: a run that has ended exits non-zero when a
\* credential variable is missing, when no client was built, when the login
\* status is not 2xx, or when a request got no response
FailureCausesExitNonZero ==
    pc = "exit" =>
        /\ exit_code \in {0, 1, 101}
        /\ (env.user # "Ok" \/ env.pass # "Ok") => exit_code # 0
        /\ clients = 0 => exit_code # 0
        /\ (login_resp.status # 0 /\ login_resp.status \notin Success2xx) => exit_code # 0
        /\ (LoginTransportFailed \/ AdobeTransportFailed) => exit_code # 0

\* C6 as stated: the failure causes exit non-zero, and a run exits zero exactly
\* when the reservation response body has been printed: none exits zero
\* without the body printed, none that printed it exits non-zero.
C6_ExitZeroIffPrinted ==
    /\ FailureCausesExitNonZero
    /\ pc = "exit" => (exit_code = 0 <=> BodyPrinted)

\* C6 amended: the failure causes exit non-zero; a run exits zero exactly
\* when main returned Ok(()), and then println! has put the body and its
\* newline on stdout, whatever the response's status: none exits zero without
\* the body printed.  A run with anything of the body on stdout exits non-zero
\* only with status 101, by the panic of println! on a failed write; the
\* body, and after the flush at exit the whole line, can be on stdout then.
C6_ExitOutcome ==
    /\ FailureCausesExitNonZero
    /\ pc = "exit" => (exit_code = 0 <=> err = NoError)
    /\ (pc = "exit" /\ exit_code = 0) => stdout = "line"
    /\ (pc = "exit" /\ stdout # "none" /\ exit_code # 0) =>
           (exit_code = 101 /\ err.kind = "failed printing to stdout")

C6_Witness ==
    /\ pc = "exit"
    /\ exit_code = 0
    /\ stdout = "line"
    /\ adobe_resp.status = 403

\* C7: the login POST and the reservation POST are each sent at most once, and
\* a request that got no response has made main return its error at once
\* (only the report of the error and the exit with status 1 follow), with no
\* request issued after it.
C7_NoRetry ==
    /\ login_sent <= 1
    /\ adobe_sent <= 1
    /\ LoginTransportFailed =>
           (pc \in {"fail", "exit"} /\ err.code = 1 /\ err.kind = "network" /\ adobe_sent = 0)
    /\ AdobeTransportFailed =>
           (pc \in {"fail", "exit"} /\ err.code = 1 /\ err.kind = "network")
    /\ pc = "exit" /\ err.kind = "network" => exit_code = 1

C7_Witness ==
    /\ pc = "exit"
    /\ LoginTransportFailed
    /\ login_sent = 1
    /\ adobe_sent = 0

\* the state of the whole-program state machine of spec section 4.4
ProgramState ==
    IF pc = "exit" /\ exit_code = 0 THEN "Done"
    ELSE IF adobe_resp.status # 0 THEN "ReservationSubmitted"
    ELSE IF pc = "adobe" \/ adobe_sent > 0 THEN "LoggedIn"
    ELSE "Start"

StateOrder == <<"Start", "LoggedIn", "ReservationSubmitted", "Done">>

StateRank(st) == CHOOSE i \in 1..4 : StateOrder[i] = st

\* the safety half of C8: the run moves through Start, LoggedIn,
\* ReservationSubmitted, Done only one state forward at a time and never back;
\* it is past Start only after a login response with a 2xx status, past
\* LoggedIn only after a reservation response, Done only after printing
StateMachineSteps ==
    /\ [][ProgramState' = ProgramState
           \/ StateRank(ProgramState') = StateRank(ProgramState) + 1]_vars
    /\ [](ProgramState # "Start" => login_resp.status \in Success2xx)
    /\ [](ProgramState \in {"ReservationSubmitted", "Done"} => adobe_sent = 1)
    /\ [](ProgramState = "Done" => stdout = "line")

\* C8 as stated: the state machine above, and every run eventually stops.
C8_StateMachineStops ==
    /\ StateMachineSteps
    /\ <>(pc = "exit")

\* C8 amended: the state machine above, and every run eventually stops or
\* stays for ever in a write to stdout or stderr: of the reservation body
\* (line 126), of the login failure message (line 106), or of the panic
\* message or `Error: ..` line that precedes a failing exit.
C8_StateMachine ==
    /\ StateMachineSteps
    /\ \/ <>(pc = "exit")
       \/ <>[](pc = "write")
       \/ <>[](pc = "report")
       \/ <>[](pc = "fail")

C8_Witness ==
    /\ ProgramState = "Done"
    /\ login_resp.status = 204
    /\ adobe_sent = 1

\* C9 as stated: once the reservation request is issued, the login status was
\* 2xx, the request carries the date_expire that make_date_expire gave for the
\* date read at line 78 and that value is the one still held, and the request
\* went through the client that sent the login, whose jar held exactly the
\* cookies set by the login response.
C9_JarExactlyLoginCookies ==
    adobe_sent > 0 =>
        /\ login_resp.status \in Success2xx
        /\ adobe_req.date_expire = make_date_expire(today.year, today.month).str
        /\ adobe_req.date_expire = date_expire.str
        /\ adobe_req.client = login_req.client
        /\ clients = 1
        /\ adobe_req.jar = login_resp.cookies

\* C9 amended: the reservation request is issued only after a 2xx login and
\* carries the date_expire that make_date_expire gave for the date read at
\* line 78, whatever the clock says by then; the computed value never changes
\* once set; the request goes through the one client that sent the login,
\* built with its cookie store enabled, and the cookies sent with it are
\* cookies of that store.  What the store holds is not fixed by the login
\* response's cookies.
C9_ReservationCarriesDate ==
    /\ [](adobe_sent > 0 =>
            /\ login_resp.status \in Success2xx
            /\ adobe_req.date_expire = make_date_expire(today.year, today.month).str
            /\ adobe_req.date_expire = date_expire.str
            /\ adobe_req.client = login_req.client
            /\ clients = 1
            /\ jar.enabled
            /\ adobe_req.cookies \subseteq adobe_req.jar)
    /\ [][pc \notin {"dotenv", "username", "password", "date"} =>
            (date_expire' = date_expire /\ today' = today)]_vars

C9_Witness ==
    /\ adobe_sent = 1
    /\ today.month = 12
    /\ clock # today
    /\ jar.enabled
    /\ adobe_req.jar = Cookies
    /\ adobe_req.jar # login_resp.cookies
    /\ adobe_req.cookies # {}
    /\ adobe_req.date_expire = <<"2", "0", "2", "4", "-", "1", "3", "-", "0", "1">>

\* C10: in a run where env::var fails for a credential variable after the
\* .env file was loaded (the variable is unset, or not valid Unicode), no
\* client is built, no POST is sent, the jar stays empty, and the run ends at
\* the credential check with a failure.
C10_CredentialsFirst ==
    (pc # "dotenv" /\ (env.user # "Ok" \/ env.pass # "Ok")) =>
        /\ clients = 0
        /\ login_sent = 0
        /\ adobe_sent = 0
        /\ jar = [enabled |-> FALSE, cookies |-> {}]
        /\ pc \in {"username", "password", "fail", "exit"}
        /\ pc = "exit" => exit_code = 101

C10_Witness ==
    /\ pc = "exit"
    /\ env.user = "Ok"
    /\ env.pass = "NotPresent"
    /\ exit_code = 101
    /\ clients = 0

====
